---- MODULE Spec2Model ----
(***************************************************************************)
(* A model of src/app.py: the /get_iec_details request handler, the        *)
(* CAPTCHA resolution loop (handle_captcha_submission), the detail panel   *)
(* extractor, the table extractor and the paginated extraction walker.     *)
(*                                                                         *)
(* The browser, the portal and the solver service are the environment:     *)
(* every call into them is a nondeterministic choice over the outcomes     *)
(* the call can have (a value, a timeout, an exception).                   *)
(*                                                                         *)
(* A text is a sequence of characters; a character is a one-letter string. *)
(***************************************************************************)
EXTENDS Integers, Sequences, FiniteSets, TLC

\* ---------------------------------------------------------------- bounds

\* Pages of the branch table widget.
MaxPages == 2
\* Body rows of one rendered page.
MaxRows == 2
\* Next clicks the portal lets pass while a re-render is still pending.
MaxLag == 1
\* The clicks one walk is followed for: more than any portal with a last page
\* takes.
MaxClicks == MaxPages + MaxLag + 1

\* ------------------------------------------------------- program constants

\* handle_captcha_submission: max_attempts = 5
max_attempts == 5

\* extract_table_data_with_bs4 / extract_table_data_with_pagination: delimiter=";"
delimiter == ";"

WS == " "
NL == "\n"
TAB == "\t"
\* The characters str.strip() and str.split() take for whitespace.
Whitespace == {WS, TAB, NL}

\* ------------------------------------------------------------ text helpers

RECURSIVE LStrip(_)
\* str.lstrip(): drop the leading whitespace.
LStrip(t) == IF t # <<>> /\ Head(t) \in Whitespace THEN LStrip(Tail(t)) ELSE t

RECURSIVE RStrip(_)
\* str.rstrip(): drop the trailing whitespace.
RStrip(t) ==
    IF t # <<>> /\ t[Len(t)] \in Whitespace
    THEN RStrip(SubSeq(t, 1, Len(t) - 1)) ELSE t

\* get_text(strip=True) of an element holding one text node, and str.strip().
Strip(t) == RStrip(LStrip(t))

RECURSIVE FirstWord(_)
\* The maximal whitespace-free prefix of t.
FirstWord(t) ==
    IF t = <<>> \/ Head(t) \in Whitespace
    THEN <<>> ELSE <<Head(t)>> \o FirstWord(Tail(t))

RECURSIVE Split(_)
\* str.split() with no argument: the maximal runs of non-whitespace, in order.
Split(t) ==
    LET s == LStrip(t)
        w == FirstWord(s)
    IN  IF s = <<>> THEN <<>>
        ELSE <<w>> \o Split(SubSeq(s, Len(w) + 1, Len(s)))

RECURSIVE Join(_, _)
\* sep.join(parts): the parts concatenated with sep between them.
Join(parts, sep) ==
    IF parts = <<>> THEN <<>>
    ELSE IF Len(parts) = 1 THEN parts[1]
    ELSE parts[1] \o sep \o Join(Tail(parts), sep)
\* The cell normalizer with the text trimmed only, its inner runs of
\* whitespace left as they are.
Normalize_StripOnly(t) == Strip(t)

\* ' '.join(col.get_text(strip=True).split()): the cell normalizer.
Normalize(t) == Join(Split(Strip(t)), <<WS>>)

\* Python's any() over a list of strings: some string is non-empty.
AnyText(cells) == \E i \in 1..Len(cells) : cells[i] # <<>>

\* [th.get_text(strip=True) for th in ...]
StripAll(cells) == [i \in 1..Len(cells) |-> Strip(cells[i])]

\* [' '.join(col.get_text(strip=True).split()) for col in cols]
NormalizeAll(cells) == [i \in 1..Len(cells) |-> Normalize(cells[i])]

Range(seq) == {seq[i] : i \in 1..Len(seq)}

Count(x, seq) == Cardinality({i \in 1..Len(seq) : seq[i] = x})

\* ------------------------------------------------------------------ state

VARIABLES
    pc,             \* the program point of the request
    request,        \* what request.get_json() yields for this request
    driver,         \* the handler's driver: "none" (None), "open", "quit"
    created,        \* sessions created by create_driver()
    quits,          \* calls of driver.quit()
    excFrom,        \* the function a propagating exception left, or "none"
    excMsg,         \* str(e) of the propagating exception, or "none"
    response,       \* the handler's response, NoResponse until produced
    iec_details,    \* get_iec_details: iec_details (NoText until extracted)
    captchaRet,     \* handle_captcha_submission's return: "none", "true", "false"
    verified,       \* the success heading with the phrase was observed
    attempt,        \* handle_captcha_submission: attempt
    captcha_image,  \* handle_captcha_submission: captcha_image
    captcha_text,   \* handle_captcha_submission: captcha_text
    solveCalls,     \* calls of solve_captcha_with_gpt4 in this run of the loop
    netCalls,       \* requests sent to the solver service in this run
    fills,          \* times the CAPTCHA input was cleared and filled
    submits,        \* clicks on the submit button
    failed,         \* attempts that ended without success, counted where they fail
    outcome,        \* how the last finished attempt ended
    thead,          \* the portal's table: its head section
    numPages,       \* the portal's table: its number of pages (0: no table)
    lastNext,       \* the portal's table: the next control on the last page
    dom,            \* the rendered table: [table, rows, next]
    shown,          \* the page the rendered table shows
    target,         \* the page the widget has been asked to show
    lag,            \* next clicks since the last render that are still pending
    truth,          \* the raw body rows of every page rendered so far
    all_rows,       \* extract_table_data_with_pagination: all_rows
    page,           \* extract_table_data_with_pagination: page
    next_button,    \* the class of next_button as read in this iteration
    clicks,         \* next_button.click() calls that went through
    visited,        \* the page shown at each extraction, in order
    dropped,        \* the lines dropped at index 0 on pages >= 2
    iterRows,       \* all_rows as it was when the current iteration began
    errKind,        \* the step of the walk that raised, or "none"
    branch_details, \* get_iec_details: branch_details (NoText until returned)
    steps,          \* the calls the handler has made so far, in order
    touched,        \* the CAPTCHA input or the submit button was acted on in this attempt
    captured,       \* attempts of this run in which a region was captured
    raw,            \* a raw cell text handed to the cell normalizer
    norm,           \* what the cell normalizer made of it
    norm2,          \* what the cell normalizer made of norm
    delimiterArg,   \* extract_table_data_with_bs4: the caller's delimiter
    lines,          \* extract_table_data_with_bs4: the lines it returned
    lines2          \* the lines of a second call on the same page source

hvars == <<request, driver, created, quits, excFrom, excMsg, response, iec_details>>
cvars == <<captchaRet, verified, attempt, captcha_image, captcha_text,
           solveCalls, netCalls, fills, submits, failed, outcome>>
pvars == <<thead, numPages, lastNext, dom, shown, target, lag, truth>>
wvars == <<all_rows, page, next_button, clicks, visited, dropped, iterRows,
           errKind, branch_details>>
xvars == <<raw, norm, norm2, delimiterArg, lines, lines2>>
vars == <<pc, hvars, cvars, pvars, wvars, xvars, steps, touched, captured>>

\* ---------------------------------------------------------------- values

\* request.get_json(): it raises (no JSON body), yields None (JSON null), or
\* yields an object holding some of the two required keys.
Requests ==
    {[json |-> "raise", keys |-> {}], [json |-> "null", keys |-> {}]}
    \cup {[json |-> "object", keys |-> k] : k \in SUBSET {"iec_code", "name"}}

NoText == <<"<none>">>

NoResponse == [success |-> FALSE, error |-> "none", status |-> 0,
               iec_details |-> NoText, branch_details |-> NoText]

\* jsonify({'success': False, 'error': msg}), status
Failure(msg, status) == [success |-> FALSE, error |-> msg, status |-> status,
                         iec_details |-> NoText, branch_details |-> NoText]

\* jsonify({'success': True, 'details': {...}}); Flask's default status
Success(details, branches) == [success |-> TRUE, error |-> "none", status |-> 200,
                               iec_details |-> details, branch_details |-> branches]

MissingParameters == "Missing required parameters: iec_code and name"
FailedCaptcha == "Failed to solve captcha"

\* ---- the portal's branch table

\* No thead; a thead whose cells are all blank; a thead with text.
NoHead == [has |-> FALSE, ths |-> <<>>]
BlankHead == [has |-> TRUE, ths |-> << <<WS>>, <<>> >>]
FullHead == [has |-> TRUE, ths |-> << <<WS, "B", WS>>, <<"C">> >>]
HeaderChoices == {NoHead, BlankHead, FullHead}

Digit(n) == <<"0", "1", "2", "3", "4", "5", "6", "7", "8", "9">>[n + 1]

\* The record in row r of page p, as the portal renders it, and a blank row.
DataRow(p, r) == << <<WS, "p", Digit(p), WS, WS, "r", Digit(r), WS>>, <<"x">> >>
BlankRow == << <<WS>>, <<>> >>

\* The body rows page p can hold: 1..MaxRows rows, each a record or blank.
PageChoices(p) ==
    UNION { { [r \in 1..n |-> IF r \in B THEN BlankRow ELSE DataRow(p, r)] :
              B \in SUBSET (1..n) } : n \in 1..MaxRows }

NoDom == [table |-> FALSE, rows |-> <<>>, next |-> "absent"]

\* ---- the detail panel

\* A form-group: its label and its p element (NoText: the element is missing).
CompleteGroup == [label |-> <<WS, "L">>, value |-> <<"V", WS>>]
NoValueGroup == [label |-> <<"L">>, value |-> NoText]
BlankValueGroup == [label |-> <<"L">>, value |-> <<WS>>]
Panels == {<<CompleteGroup>>, <<NoValueGroup, CompleteGroup>>, <<BlankValueGroup>>}

\* The program points inside handle_captcha_submission's loop body.
CaptchaStepPcs == {"c_capture", "c_solve", "c_test", "c_fill", "c_submit", "c_verify"}
CaptchaPcs == CaptchaStepPcs \cup {"c_loop", "c_except", "c_incr"}
\* The program points inside extract_table_data_with_pagination.
WalkStepPcs == {"w_wait", "w_extract", "w_next", "w_click"}
WalkPcs == WalkStepPcs \cup {"w_return"}
\* The program points of get_iec_details itself.
HandlerPcs == {"get_json", "create_driver", "navigate", "fill_form", "captcha_result",
               "extract_details", "walk", "respond", "except", "finally", "done"}

\* ------------------------------------------------------------------- Init

Init ==
    /\ pc = "get_json"
    /\ request \in Requests
    /\ driver = "none"
    /\ created = 0
    /\ quits = 0
    /\ excFrom = "none"
    /\ excMsg = "none"
    /\ response = NoResponse
    /\ iec_details = NoText
    /\ captchaRet = "none"
    /\ verified = FALSE
    /\ attempt = 0
    /\ captcha_image = "none"
    /\ captcha_text = "none"
    /\ solveCalls = 0
    /\ netCalls = 0
    /\ fills = 0
    /\ submits = 0
    /\ failed = 0
    /\ outcome = "none"
    /\ thead = NoHead
    /\ numPages = 0
    /\ lastNext = "absent"
    /\ dom = NoDom
    /\ shown = 0
    /\ target = 0
    /\ lag = 0
    /\ truth = <<>>
    /\ all_rows = <<>>
    /\ page = 0
    /\ next_button = "none"
    /\ clicks = 0
    /\ visited = <<>>
    /\ dropped = {}
    /\ iterRows = <<>>
    /\ errKind = "none"
    /\ branch_details = NoText
    /\ steps = <<>>
    /\ touched = FALSE
    /\ captured = 0
    /\ raw = NoText
    /\ norm = NoText
    /\ norm2 = NoText
    /\ delimiterArg = delimiter
    /\ lines = <<>>
    /\ lines2 = <<>>

\* ------------------------------------------- handle_captcha_submission

\* An exception leaves the try body of the current attempt.
CaptchaRaise(msg, how) ==
    /\ pc' = "c_except"
    /\ excFrom' = "handle_captcha_submission"
    /\ excMsg' = msg
    /\ failed' = failed + 1
    /\ outcome' = how

\* while attempt < max_attempts: ... ; return False
CaptchaLoop ==
    /\ pc = "c_loop"
    /\ IF attempt < max_attempts
       THEN /\ pc' = "c_capture"
            /\ touched' = FALSE
            /\ UNCHANGED captchaRet
       ELSE /\ pc' = "captcha_result"
            /\ captchaRet' = "false"
            /\ UNCHANGED touched
    /\ UNCHANGED <<xvars, steps, captured,
                   pvars, wvars, hvars, verified, attempt, captcha_image, captcha_text,
                   solveCalls, netCalls, fills, submits, failed, outcome>>

\* captcha_image = capture_captcha_section(driver): the cropped image, None
\* when the element does not appear within 5 s (TimeoutException is caught
\* inside), or any other driver or imaging exception.
CaptchaCapture ==
    /\ pc = "c_capture"
    /\ \/ /\ \E img \in {"image", "none"} :
                /\ captcha_image' = img
                /\ captured' = IF img = "image" THEN captured + 1 ELSE captured
          /\ pc' = "c_solve"
          /\ UNCHANGED <<excFrom, excMsg, failed, outcome>>
       \/ /\ CaptchaRaise("WebDriverException", "capture_error")
          /\ UNCHANGED <<captcha_image, captured>>
    /\ UNCHANGED <<xvars, steps, touched,
                   pvars, wvars, request, driver, created, quits, response, iec_details,
                   captchaRet, verified, attempt, captcha_text,
                   solveCalls, netCalls, fills, submits>>
\* CaptchaSolve without the "if not captcha_image: return None" test: a
\* request is sent whatever was captured.
CaptchaSolve_AlwaysRequest ==
    /\ pc = "c_solve"
    /\ solveCalls' = solveCalls + 1
    /\ netCalls' = netCalls + 1
    /\ \/ /\ \E txt \in {"text", ""} : captcha_text' = txt
          /\ pc' = "c_test"
          /\ UNCHANGED <<excFrom, excMsg, failed, outcome>>
       \/ /\ CaptchaRaise("GPT-4 API error", "solver_error")
          /\ UNCHANGED captcha_text
    /\ UNCHANGED <<xvars, steps, touched, captured,
                   pvars, wvars, request, driver, created, quits, response, iec_details,
                   captchaRet, verified, attempt, captcha_image, fills, submits>>

\* captcha_text = solve_captcha_with_gpt4(captcha_image): None without a
\* request when there is no image; else one request, which yields the
\* stripped text (possibly empty) or raises IECScraperException.
CaptchaSolve ==
    /\ pc = "c_solve"
    /\ solveCalls' = solveCalls + 1
    /\ IF captcha_image = "none"
       THEN /\ captcha_text' = "none"
            /\ pc' = "c_test"
            /\ UNCHANGED <<netCalls, excFrom, excMsg, failed, outcome>>
       ELSE /\ netCalls' = netCalls + 1
            /\ \/ /\ \E txt \in {"text", ""} : captcha_text' = txt
                  /\ pc' = "c_test"
                  /\ UNCHANGED <<excFrom, excMsg, failed, outcome>>
               \/ /\ CaptchaRaise("GPT-4 API error", "solver_error")
                  /\ UNCHANGED captcha_text
    /\ UNCHANGED <<xvars, steps, touched, captured,
                   pvars, wvars, request, driver, created, quits, response, iec_details,
                   captchaRet, verified, attempt, captcha_image, fills, submits>>

\* CaptchaTest with a blank result retried without consuming an attempt.
CaptchaTest_NoPenalty ==
    /\ pc = "c_test"
    /\ IF captcha_text \in {"none", ""}
       THEN /\ pc' = "c_loop"
            /\ failed' = failed + 1
            /\ outcome' = "blank"
       ELSE /\ pc' = "c_fill"
            /\ UNCHANGED <<failed, outcome>>
    /\ UNCHANGED <<xvars, steps, touched, captured,
                   pvars, wvars, hvars, captchaRet, verified, attempt, captcha_image,
                   captcha_text, solveCalls, netCalls, fills, submits>>
\* CaptchaTest skipping only an absent text ("is None"): an empty text goes on
\* to the input field.
CaptchaTest_SubmitBlank ==
    /\ pc = "c_test"
    /\ IF captcha_text = "none"
       THEN /\ attempt' = attempt + 1
            /\ pc' = "c_loop"
            /\ failed' = failed + 1
            /\ outcome' = "blank"
       ELSE /\ pc' = "c_fill"
            /\ UNCHANGED <<attempt, failed, outcome>>
    /\ UNCHANGED <<xvars, steps, touched, captured,
                   pvars, wvars, hvars, captchaRet, verified, captcha_image, captcha_text,
                   solveCalls, netCalls, fills, submits>>

\* if not captcha_text: attempt += 1; continue
CaptchaTest ==
    /\ pc = "c_test"
    /\ IF captcha_text \in {"none", ""}
       THEN /\ attempt' = attempt + 1
            /\ pc' = "c_loop"
            /\ failed' = failed + 1
            /\ outcome' = "blank"
       ELSE /\ pc' = "c_fill"
            /\ UNCHANGED <<attempt, failed, outcome>>
    /\ UNCHANGED <<xvars, steps, touched, captured,
                   pvars, wvars, hvars, captchaRet, verified, captcha_image, captcha_text,
                   solveCalls, netCalls, fills, submits>>

\* captcha_input = wait.until(presence ...); clear(); send_keys(captcha_text)
CaptchaFill ==
    /\ pc = "c_fill"
    /\ \/ /\ fills' = fills + 1
          /\ touched' = TRUE
          /\ pc' = "c_submit"
          /\ UNCHANGED <<excFrom, excMsg, failed, outcome>>
       \/ /\ \E msg \in {"TimeoutException", "WebDriverException"} :
                CaptchaRaise(msg, "fill_error")
          /\ \E acted \in BOOLEAN : touched' = acted
          /\ UNCHANGED fills
    /\ UNCHANGED <<xvars, steps, captured,
                   pvars, wvars, request, driver, created, quits, response, iec_details,
                   captchaRet, verified, attempt, captcha_image, captcha_text,
                   solveCalls, netCalls, submits>>

\* submit_button = wait.until(element_to_be_clickable ...); click()
CaptchaSubmit ==
    /\ pc = "c_submit"
    /\ \/ /\ submits' = submits + 1
          /\ touched' = TRUE
          /\ pc' = "c_verify"
          /\ UNCHANGED <<excFrom, excMsg, failed, outcome>>
       \/ /\ \E msg \in {"TimeoutException", "WebDriverException"} :
                CaptchaRaise(msg, "submit_error")
          /\ UNCHANGED <<submits, touched>>
    /\ UNCHANGED <<xvars, steps, captured,
                   pvars, wvars, request, driver, created, quits, response, iec_details,
                   captchaRet, verified, attempt, captcha_image, captcha_text,
                   solveCalls, netCalls, fills>>

\* CaptchaVerify returning True for any heading found, whatever its text.
CaptchaVerify_AnyHeading ==
    /\ pc = "c_verify"
    /\ \/ /\ pc' = "captcha_result"
          /\ captchaRet' = "true"
          /\ \E ok \in BOOLEAN :
               /\ verified' = ok
               /\ outcome' = IF ok THEN "solved" ELSE "no_phrase"
          /\ UNCHANGED <<excFrom, excMsg, failed>>
       \/ /\ outcome' = "verify_timeout"
          /\ pc' = "c_incr"
          /\ failed' = failed + 1
          /\ UNCHANGED <<excFrom, excMsg, captchaRet, verified>>
       \/ /\ CaptchaRaise("StaleElementReferenceException", "verify_error")
          /\ UNCHANGED <<captchaRet, verified>>
    /\ UNCHANGED <<xvars, steps, touched, captured,
                   pvars, wvars, request, driver, created, quits, response, iec_details,
                   attempt, captcha_image, captcha_text,
                   solveCalls, netCalls, fills, submits>>

\* The inner try: wait for the success heading; return True when its text
\* holds "IEC Details"; a TimeoutException is passed over; reading the text
\* of a heading that went stale raises into the outer handler.
CaptchaVerify ==
    /\ pc = "c_verify"
    /\ \/ /\ pc' = "captcha_result"
          /\ captchaRet' = "true"
          /\ verified' = TRUE
          /\ outcome' = "solved"
          /\ UNCHANGED <<excFrom, excMsg, failed>>
       \/ /\ \E how \in {"no_phrase", "verify_timeout"} : outcome' = how
          /\ pc' = "c_incr"
          /\ failed' = failed + 1
          /\ UNCHANGED <<excFrom, excMsg, captchaRet, verified>>
       \/ /\ CaptchaRaise("StaleElementReferenceException", "verify_error")
          /\ UNCHANGED <<captchaRet, verified>>
    /\ UNCHANGED <<xvars, steps, touched, captured,
                   pvars, wvars, request, driver, created, quits, response, iec_details,
                   attempt, captcha_image, captcha_text,
                   solveCalls, netCalls, fills, submits>>

\* CaptchaExcept letting the exception go on to the caller.
CaptchaExcept_Propagate ==
    /\ pc = "c_except"
    /\ pc' = "except"
    /\ UNCHANGED <<xvars, steps, touched, captured,
                   pvars, wvars, hvars, cvars>>

\* except Exception as e: print(...)
CaptchaExcept ==
    /\ pc = "c_except"
    /\ pc' = "c_incr"
    /\ excFrom' = "none"
    /\ excMsg' = "none"
    /\ UNCHANGED <<xvars, steps, touched, captured,
                   pvars, wvars, request, driver, created, quits, response, iec_details, cvars>>

\* attempt += 1 (the last statement of the loop body)
CaptchaIncr ==
    /\ pc = "c_incr"
    /\ attempt' = attempt + 1
    /\ pc' = "c_loop"
    /\ UNCHANGED <<xvars, steps, touched, captured,
                   pvars, wvars, hvars, captchaRet, verified, captcha_image, captcha_text,
                   solveCalls, netCalls, fills, submits, failed, outcome>>

\* ------------------------------------------- extract_table_data_with_bs4
\* The header part without the any() test: the joined th texts are a line
\* whenever the table has a thead.
HeaderLines_Always(head, delim) ==
    IF head.has THEN <<Join(StripAll(head.ths), <<delim>>)>> ELSE <<>>

\* The header part: thead's th texts, stripped, joined when any is non-empty.
HeaderLines(head, delim) ==
    IF head.has
    THEN LET headers == StripAll(head.ths)
         IN  IF AnyText(headers) THEN <<Join(headers, <<delim>>)>> ELSE <<>>
    ELSE <<>>

RECURSIVE BodyLines_Reversed(_, _)
\* The body part with each row's line put in front of the lines before it.
BodyLines_Reversed(rows, delim) ==
    IF rows = <<>> THEN <<>>
    ELSE LET row_data == NormalizeAll(Head(rows))
         IN  BodyLines_Reversed(Tail(rows), delim)
             \o (IF AnyText(row_data) THEN <<Join(row_data, <<delim>>)>> ELSE <<>>)

RECURSIVE BodyLines(_, _)
\* The body part: each tr's td texts normalized, joined when any is non-empty.
BodyLines(rows, delim) ==
    IF rows = <<>> THEN <<>>
    ELSE LET row_data == NormalizeAll(Head(rows))
         IN  (IF AnyText(row_data) THEN <<Join(row_data, <<delim>>)>> ELSE <<>>)
             \o BodyLines(Tail(rows), delim)

\* extract_table_data_with_bs4 on a page source holding head and rows; the
\* empty result when there is no table.
extract_table_data_with_bs4(hasTable, head, rows, delim) ==
    IF ~hasTable THEN <<>>
    ELSE HeaderLines(head, delim) \o BodyLines(rows, delim)

\* ------------------------------------------------- extract_iec_details

RECURSIVE DetailLines(_)
\* The loop over form_groups: a group with a missing element or a blank text
\* is skipped.
DetailLines(groups) ==
    IF groups = <<>> THEN <<>>
    ELSE LET g == Head(groups)
             label == Strip(g.label)
             value == Strip(g.value)
         IN  (IF g.label # NoText /\ g.value # NoText /\ label # <<>> /\ value # <<>>
              THEN <<label \o <<";">> \o value>>
              ELSE <<>>)
             \o DetailLines(Tail(groups))

\* extract_iec_details once the form groups are present.
extract_iec_details(groups) == Join(DetailLines(groups), <<NL>>)

\* ---------------------------------- extract_table_data_with_pagination

\* The next control the widget renders with page p.
NextOf(p) == IF p < numPages THEN "enabled" ELSE lastNext

\* all_rows = []; page = 1: the walker's frame at its entry.
WalkStart ==
    /\ pc = "walk"
    /\ pc' = "w_wait"
    /\ steps' = Append(steps, "extract_table_data_with_pagination")
    /\ all_rows' = <<>>
    /\ page' = 1
    /\ UNCHANGED <<xvars, touched, captured,
                   hvars, cvars, lag, next_button, clicks, visited, dropped,
                   iterRows, errKind, branch_details>>

\* The result page the portal has rendered holds no branch table at all.
ShowsNoTable ==
    /\ thead' = NoHead
    /\ numPages' = 0
    /\ lastNext' = "absent"
    /\ dom' = NoDom
    /\ shown' = 0
    /\ target' = 0
    /\ truth' = <<>>

\* The result page holds the first page of a branch table whose last page
\* shows the next control as ln.
ShowsTable(ln) ==
    \E h \in HeaderChoices, n \in 1..MaxPages :
    \E rows \in PageChoices(1) :
        /\ thead' = h
        /\ numPages' = n
        /\ lastNext' = ln
        /\ dom' = [table |-> TRUE, rows |-> rows,
                   next |-> IF 1 < n THEN "enabled" ELSE ln]
        /\ shown' = 1
        /\ target' = 1
        /\ truth' = [q \in 1..n |-> IF q = 1 THEN rows ELSE <<>>]

\* The walk on a portal whose last page shows the next control disabled, or
\* shows none.
WalkEnter ==
    /\ WalkStart
    /\ \/ ShowsNoTable
       \/ \E ln \in {"disabled", "absent"} : ShowsTable(ln)

\* The walk on any portal: the next control of the last page may also be
\* present without the disabled marker, and then stays so click after click.
WalkEnterAny ==
    /\ WalkStart
    /\ \/ ShowsNoTable
       \/ \E ln \in {"disabled", "absent", "enabled"} : ShowsTable(ln)

\* The portal finishes a pending re-render: the table shows the target page.
Render ==
    /\ pc \in WalkStepPcs
    /\ target # shown
    /\ \E rows \in PageChoices(target) :
         /\ dom' = [table |-> TRUE, rows |-> rows, next |-> NextOf(target)]
         /\ truth' = [truth EXCEPT ![target] = rows]
    /\ shown' = target
    /\ lag' = 0
    /\ UNCHANGED <<xvars, steps, touched, captured,
                   pc, hvars, cvars, wvars, thead, numPages, lastNext, target>>

\* WalkRaise without the outer handler: the exception leaves the walker.
WalkRaise_Propagate(step) ==
    /\ pc' = "except"
    /\ errKind' = step
    /\ excFrom' = "extract_table_data_with_pagination"
    /\ excMsg' = "WebDriverException"

\* An exception in the loop body: except Exception as e: print(...); break
WalkRaise(step) ==
    /\ pc' = "w_return"
    /\ errKind' = step
    /\ UNCHANGED <<xvars, steps, touched, captured,
                   excFrom, excMsg>>

\* The two waits: the table is present, and its body has at least one row. A
\* wait that is not satisfied in 10 s raises TimeoutException.
WalkWait ==
    /\ pc = "w_wait"
    /\ \/ /\ dom.table
          /\ Len(dom.rows) > 0
          /\ pc' = "w_extract"
          /\ UNCHANGED <<errKind, excFrom, excMsg>>
       \/ WalkRaise("wait")
    /\ UNCHANGED <<xvars, steps, touched, captured,
                   request, driver, created, quits, response, iec_details, cvars,
                   pvars, all_rows, page, next_button, clicks, visited, dropped,
                   iterRows, branch_details>>

\* Merged keeping every line of every page.
Merged_KeepAll(pg, current_page_rows) == current_page_rows

\* What a page's lines add to all_rows: all of them on page 1, all but the
\* line at index 0 on the later pages.
Merged(pg, current_page_rows) ==
    IF pg = 1 THEN current_page_rows
    ELSE IF current_page_rows # <<>> THEN Tail(current_page_rows) ELSE <<>>

\* current_page_rows = extract_table_data_with_bs4(...); all_rows.extend(...)
WalkExtract ==
    /\ pc = "w_extract"
    /\ \/ LET current_page_rows ==
                  extract_table_data_with_bs4(dom.table, thead, dom.rows, delimiter)
          IN  /\ all_rows' = all_rows \o Merged(page, current_page_rows)
              /\ visited' = Append(visited, shown)
              /\ dropped' = IF page # 1 /\ current_page_rows # <<>>
                            THEN dropped \cup {Head(current_page_rows)}
                            ELSE dropped
              /\ pc' = "w_next"
              /\ UNCHANGED <<errKind, excFrom, excMsg>>
       \/ /\ WalkRaise("extract")
          /\ UNCHANGED <<all_rows, visited, dropped>>
    /\ UNCHANGED <<xvars, steps, touched, captured,
                   request, driver, created, quits, response, iec_details, cvars,
                   pvars, page, next_button, clicks, iterRows, branch_details>>

\* WalkNext without the test of the class: a control that is present is clicked.
WalkNext_IgnoreDisabled ==
    /\ pc = "w_next"
    /\ \/ /\ next_button' = dom.next
          /\ pc' = IF dom.next # "absent" THEN "w_click" ELSE "w_return"
          /\ UNCHANGED <<errKind, excFrom, excMsg>>
       \/ /\ WalkRaise("next")
          /\ UNCHANGED next_button
    /\ UNCHANGED <<xvars, steps, touched, captured,
                   request, driver, created, quits, response, iec_details, cvars,
                   pvars, all_rows, page, clicks, visited, dropped, iterRows,
                   branch_details>>

\* The inner try up to the class test: the next control is looked up (absent
\* after 10 s: TimeoutException, caught by the inner handler: break), its
\* class is read, and "disabled" in it breaks the loop.
WalkNext ==
    /\ pc = "w_next"
    /\ \/ /\ next_button' = dom.next
          /\ pc' = IF dom.next = "enabled" THEN "w_click" ELSE "w_return"
          /\ UNCHANGED <<errKind, excFrom, excMsg>>
       \/ /\ WalkRaise("next")
          /\ UNCHANGED next_button
    /\ UNCHANGED <<xvars, steps, touched, captured,
                   request, driver, created, quits, response, iec_details, cvars,
                   pvars, all_rows, page, clicks, visited, dropped, iterRows,
                   branch_details>>

\* next_button.click(); time.sleep(1); page += 1. The widget moves its target
\* one page on when there is one, and re-renders later: until then the table
\* keeps the rows it shows, or is emptied.
WalkClick ==
    /\ pc = "w_click"
    /\ \/ /\ target = shown \/ lag < MaxLag
          /\ clicks < MaxClicks
          /\ clicks' = clicks + 1
          /\ page' = page + 1
          /\ pc' = "w_wait"
          /\ iterRows' = all_rows
          /\ next_button' = "none"
          /\ target' = IF target < numPages THEN target + 1 ELSE target
          /\ IF target' # shown
             THEN /\ lag' = lag + 1
                  /\ \E emptied \in BOOLEAN :
                       dom' = IF emptied THEN [dom EXCEPT !.rows = <<>>] ELSE dom
             ELSE UNCHANGED <<lag, dom>>
          /\ UNCHANGED <<errKind, excFrom, excMsg>>
       \/ /\ WalkRaise("click")
          /\ UNCHANGED <<clicks, page, iterRows, next_button, target, lag, dom>>
    /\ UNCHANGED <<xvars, steps, touched, captured,
                   request, driver, created, quits, response, iec_details, cvars,
                   thead, numPages, lastNext, shown, truth, all_rows, visited,
                   dropped, branch_details>>

\* return "\n".join(all_rows), assigned to branch_details by the handler. The
\* walker's frame is gone and the page is not read again: the walk's locals,
\* its history and the table are cleared.
WalkReturn ==
    /\ pc = "w_return"
    /\ branch_details' = Join(all_rows, <<NL>>)
    /\ pc' = "respond"
    /\ all_rows' = <<>>
    /\ page' = 0
    /\ next_button' = "none"
    /\ clicks' = 0
    /\ visited' = <<>>
    /\ dropped' = {}
    /\ iterRows' = <<>>
    /\ errKind' = "none"
    /\ thead' = NoHead
    /\ numPages' = 0
    /\ lastNext' = "absent"
    /\ dom' = NoDom
    /\ shown' = 0
    /\ target' = 0
    /\ lag' = 0
    /\ truth' = <<>>
    /\ UNCHANGED <<xvars, steps, touched, captured,
                   hvars, cvars>>

\* ------------------------------------------------------ get_iec_details
\* HandlerRaise with the exception swallowed: the handler goes on to the
\* pagination walker.
HandlerRaise_Continue(from, msg) ==
    /\ pc' = "walk"
    /\ excFrom' = from
    /\ excMsg' = msg

\* An exception reaches the handler's inner except clause.
HandlerRaise(from, msg) ==
    /\ pc' = "except"
    /\ excFrom' = from
    /\ excMsg' = msg

\* data = request.get_json() and the parameter test. An exception here is
\* caught by the outer except clause.
HandlerGetJson ==
    /\ pc = "get_json"
    /\ IF request.json = "raise"
       THEN /\ response' = Failure("Server error: BadRequest", 500)
            /\ pc' = "done"
       ELSE IF request.json = "null" \/ "iec_code" \notin request.keys
                                     \/ "name" \notin request.keys
       THEN /\ response' = Failure(MissingParameters, 400)
            /\ pc' = "done"
       ELSE /\ pc' = "create_driver"
            /\ UNCHANGED response
    /\ UNCHANGED <<xvars, steps, touched, captured,
                   request, driver, created, quits, excFrom, excMsg, iec_details,
                   cvars, pvars, wvars>>

\* driver = create_driver(): a session, or IECScraperException with none left.
HandlerCreateDriver ==
    /\ pc = "create_driver"
    /\ steps' = Append(steps, "create_driver")
    /\ \/ /\ driver' = "open"
          /\ created' = created + 1
          /\ pc' = "navigate"
          /\ UNCHANGED <<excFrom, excMsg>>
       \/ /\ HandlerRaise("create_driver", "Failed to create Chrome driver")
          /\ UNCHANGED <<driver, created>>
    /\ UNCHANGED <<xvars, touched, captured,
                   request, quits, response, iec_details, cvars, pvars, wvars>>

\* driver.get(...), the click on the entry link, the lookup of both inputs.
HandlerNavigate ==
    /\ pc = "navigate"
    /\ steps' = Append(steps, "navigate")
    /\ \/ /\ pc' = "fill_form"
          /\ UNCHANGED <<excFrom, excMsg>>
       \/ \E msg \in {"TimeoutException", "WebDriverException", "NoSuchElementException"} :
            HandlerRaise("get_iec_details", msg)
    /\ UNCHANGED <<xvars, touched, captured,
                   request, driver, created, quits, response, iec_details,
                   cvars, pvars, wvars>>

\* iec_input.send_keys(iec_code); name_input.send_keys(name); then the call
\* of handle_captcha_submission (max_attempts = 5; attempt = 0).
HandlerFillForm ==
    /\ pc = "fill_form"
    /\ \/ /\ pc' = "c_loop"
          /\ attempt' = 0
          /\ steps' = steps \o <<"fill_form", "handle_captcha_submission">>
          /\ UNCHANGED <<excFrom, excMsg>>
       \/ /\ HandlerRaise("get_iec_details", "WebDriverException")
          /\ steps' = Append(steps, "fill_form")
          /\ UNCHANGED attempt
    /\ UNCHANGED <<xvars, touched, captured,
                   request, driver, created, quits, response, iec_details,
                   captchaRet, verified, captcha_image, captcha_text, solveCalls,
                   netCalls, fills, submits, failed, outcome, pvars, wvars>>

\* HandlerCaptchaResult without the early return on False.
HandlerCaptchaResult_Fallthrough ==
    /\ pc = "captcha_result"
    /\ pc' = "extract_details"
    /\ attempt' = 0
    /\ captcha_image' = "none"
    /\ captcha_text' = "none"
    /\ solveCalls' = 0
    /\ netCalls' = 0
    /\ fills' = 0
    /\ submits' = 0
    /\ failed' = 0
    /\ touched' = FALSE
    /\ captured' = 0
    /\ UNCHANGED <<xvars, steps,
                   request, driver, created, quits, excFrom, excMsg, response,
                   iec_details, captchaRet, verified, outcome, pvars, wvars>>

\* if not handle_captcha_submission(driver): return jsonify(...), 400
\* The loop's frame is gone: its locals and the counts of its run are cleared
\* (how the last attempt ended is kept).
HandlerCaptchaResult ==
    /\ pc = "captcha_result"
    /\ IF captchaRet = "false"
       THEN /\ response' = Failure(FailedCaptcha, 400)
            /\ pc' = "finally"
       ELSE /\ pc' = "extract_details"
            /\ UNCHANGED response
    /\ attempt' = 0
    /\ captcha_image' = "none"
    /\ captcha_text' = "none"
    /\ solveCalls' = 0
    /\ netCalls' = 0
    /\ fills' = 0
    /\ submits' = 0
    /\ failed' = 0
    /\ touched' = FALSE
    /\ captured' = 0
    /\ UNCHANGED <<xvars, steps,
                   request, driver, created, quits, excFrom, excMsg, iec_details,
                   captchaRet, verified, outcome, pvars, wvars>>
\* HandlerDetails answering right after the details, without the walker.
HandlerDetails_SkipWalk ==
    /\ pc = "extract_details"
    /\ steps' = Append(steps, "extract_iec_details")
    /\ \/ /\ \E groups \in Panels : iec_details' = extract_iec_details(groups)
          /\ pc' = "respond"
          /\ UNCHANGED <<excFrom, excMsg>>
       \/ /\ HandlerRaise("extract_iec_details", "Error extracting IEC details")
          /\ UNCHANGED iec_details
    /\ UNCHANGED <<xvars, touched, captured,
                   request, driver, created, quits, response, cvars, pvars, wvars>>

\* iec_details = extract_iec_details(driver): the wait for the form groups
\* fails (IECScraperException), or the groups are read.
HandlerDetails ==
    /\ pc = "extract_details"
    /\ steps' = Append(steps, "extract_iec_details")
    /\ \/ /\ \E groups \in Panels : iec_details' = extract_iec_details(groups)
          /\ pc' = "walk"
          /\ UNCHANGED <<excFrom, excMsg>>
       \/ /\ HandlerRaise("extract_iec_details", "Error extracting IEC details")
          /\ UNCHANGED iec_details
    /\ UNCHANGED <<xvars, touched, captured,
                   request, driver, created, quits, response, cvars, pvars, wvars>>

\* return jsonify({'success': True, 'details': {...}})
HandlerRespond ==
    /\ pc = "respond"
    /\ response' = Success(iec_details, branch_details)
    /\ pc' = "finally"
    /\ UNCHANGED <<xvars, steps, touched, captured,
                   request, driver, created, quits, excFrom, excMsg, iec_details,
                   cvars, pvars, wvars>>

\* except Exception as e: return jsonify({'success': False, 'error': str(e)}), 500
HandlerExcept ==
    /\ pc = "except"
    /\ response' = Failure(excMsg, 500)
    /\ pc' = "finally"
    /\ UNCHANGED <<xvars, steps, touched, captured,
                   request, driver, created, quits, excFrom, excMsg, iec_details,
                   cvars, pvars, wvars>>

\* HandlerFinally without the quit.
HandlerFinally_NoQuit ==
    /\ pc = "finally"
    /\ pc' = "done"
    /\ UNCHANGED <<xvars, steps, touched, captured,
                   hvars, cvars, pvars, wvars>>

\* finally: if driver: driver.quit(); then the pending return completes.
HandlerFinally ==
    /\ pc = "finally"
    /\ IF driver # "none"
       THEN /\ driver' = "quit"
            /\ quits' = quits + 1
       ELSE UNCHANGED <<driver, quits>>
    /\ pc' = "done"
    /\ UNCHANGED <<xvars, steps, touched, captured,
                   request, created, excFrom, excMsg, response, iec_details,
                   cvars, pvars, wvars>>

\* ------------------------------------------------------------------- Spec

Next ==
    \/ HandlerGetJson
    \/ HandlerCreateDriver
    \/ HandlerNavigate
    \/ HandlerFillForm
    \/ CaptchaLoop
    \/ CaptchaCapture
    \/ CaptchaSolve
    \/ CaptchaTest
    \/ CaptchaFill
    \/ CaptchaSubmit
    \/ CaptchaVerify
    \/ CaptchaExcept
    \/ CaptchaIncr
    \/ HandlerCaptchaResult
    \/ HandlerDetails
    \/ WalkEnter
    \/ Render
    \/ WalkWait
    \/ WalkExtract
    \/ WalkNext
    \/ WalkClick
    \/ WalkReturn
    \/ HandlerRespond
    \/ HandlerExcept
    \/ HandlerFinally

Spec == Init /\ [][Next]_vars

\* ------------------------------------------------------------- claims

\* C1: in one run of handle_captcha_submission, solve_captcha_with_gpt4 is
\* called at most 5 times whatever the page and the solver do, and a run in
\* which no attempt saw the success marker returns False after exactly 5
\* attempts, all of them failed.
C1_SolveCallsBounded ==
    /\ solveCalls <= 5
    /\ attempt <= 5
    /\ (pc = "captcha_result" /\ ~verified)
         => (captchaRet = "false" /\ attempt = 5 /\ failed = 5)
    /\ (pc = "captcha_result" /\ captchaRet = "false") => ~verified

\* C1 witness: the loop returned False after five solve calls, the last of
\* which raised.
C1_Witness ==
    /\ pc = "captcha_result"
    /\ captchaRet = "false"
    /\ solveCalls = 5
    /\ outcome = "solver_error"

\* C2: no exception raised inside an attempt leaves handle_captcha_submission:
\* it is only ever in flight at the loop's own except clause, the handler's
\* except clause never sees it, and at the head of the loop every attempt that
\* failed so far (by exception or otherwise) has been counted exactly once.
C2_NoExceptionEscapes ==
    /\ (excFrom = "handle_captcha_submission") => (pc = "c_except")
    /\ (pc = "c_loop") => (attempt = failed)
    /\ (pc = "captcha_result" /\ captchaRet = "false") => (attempt = failed)

\* C2 witness: a third attempt is running after an attempt that ended with an
\* exception from the submit step.
C2_Witness ==
    /\ pc = "c_capture"
    /\ attempt = 2
    /\ outcome = "submit_error"

\* C3: handle_captcha_submission returns True exactly when an attempt filled
\* and submitted a non-blank solved text and then found the heading with the
\* phrase; it returns at that attempt (no step of the loop runs afterwards),
\* and a heading without the phrase ends the attempt as a failure.
C3_TrueIffVerified ==
    /\ (captchaRet = "true") <=> verified
    /\ verified => (pc \notin CaptchaPcs /\ outcome = "solved")
    /\ (pc = "captcha_result" /\ captchaRet = "true")
         => (captcha_text = "text" /\ fills >= 1 /\ submits >= 1
             /\ attempt = failed /\ attempt < 5)
    /\ (pc = "c_verify") => (captcha_text = "text" /\ fills >= 1 /\ submits >= 1)
    /\ (outcome = "no_phrase") => ~verified
    /\ (outcome = "no_phrase" /\ pc \in CaptchaPcs) => (failed >= 1)

\* C3 witness: success at the third attempt, after two failed ones.
C3_Witness ==
    /\ pc = "captcha_result"
    /\ captchaRet = "true"
    /\ failed = 2

\* The line the head section yields when it is not blank.
HeaderLine(head) == Join(StripAll(head.ths), <<delimiter>>)

\* A line that holds nothing but delimiters.
OnlyDelimiters(line) == \A i \in 1..Len(line) : line[i] = delimiter

\* C4 as stated: whenever a walk that extracted at least one page returns,
\* its lines hold the header line exactly once.
C4_HeaderExactlyOnce ==
    (pc = "w_return" /\ Len(visited) >= 1)
        => Count(HeaderLine(thead), all_rows) = 1

\* C4 amended: after the walker has extracted at least one page, the lines
\* hold the header line exactly once, as the first line, when the head section
\* has a non-blank cell, whatever the number of pages; when the table has no
\* head section or an all-blank one they hold no header line at all.
C4_HeaderOnceWhenNonBlank ==
    (pc \in WalkPcs /\ Len(visited) >= 1)
        => IF thead.has /\ AnyText(StripAll(thead.ths))
           THEN /\ Count(HeaderLine(thead), all_rows) = 1
                /\ all_rows[1] = HeaderLine(thead)
           ELSE /\ Count(HeaderLine(thead), all_rows) = 0
                /\ \A i \in 1..Len(all_rows) : ~OnlyDelimiters(all_rows[i])

\* C4 witness: a walk over a table with a header returned without an error
\* after extracting twice.
C4_Witness ==
    /\ pc = "w_return"
    /\ errKind = "none"
    /\ thead = FullHead
    /\ Len(visited) >= 2
    /\ clicks >= 1

\* C5: after the walker has processed pages 1..k, each once and in order, every
\* non-blank body row of those pages is among the accumulated rows, and every
\* line dropped at index 0 on a page >= 2 is the header line.
C5_NoDataRowDropped ==
    (pc \in WalkPcs /\ visited = [i \in 1..Len(visited) |-> i])
        => /\ \A i \in 1..Len(visited) :
                Range(BodyLines(truth[visited[i]], delimiter)) \subseteq Range(all_rows)
           /\ \A line \in dropped :
                thead.has /\ AnyText(StripAll(thead.ths)) /\ line = HeaderLine(thead)

RECURSIVE PagesLines(_, _)
\* The body lines of pages 1..n, page after page.
PagesLines(pages, n) ==
    IF n = 0 THEN <<>>
    ELSE PagesLines(pages, n - 1) \o BodyLines(pages[n], delimiter)

\* C6: a walk over a table with a header, whose next control is enabled on
\* pages 1..N-1 and disabled on page N, and that ends without an error, has
\* extracted pages 1, 2, ..., N once each, in order, and returns the header
\* line followed by the rows of page 1, ..., page N.
C6_PagesInOrderOnce ==
    (pc = "w_return" /\ errKind = "none" /\ thead = FullHead /\ lastNext = "disabled")
        => /\ visited = [i \in 1..numPages |-> i]
           /\ all_rows = <<HeaderLine(thead)>> \o PagesLines(truth, numPages)

C8_ErrorReturnsEarlierPages ==
    (pc = "w_return" /\ errKind \in {"wait", "extract", "click"})
        => (all_rows = iterRows)

\* C8 amended: an error in the walk never leaves the walker; it ends the walk,
\* which returns the rows accumulated so far, unchanged: those of the earlier
\* iterations when the wait or the extraction failed, and those plus the lines
\* of the page just merged when the next lookup or the click failed.
C8_ErrorReturnsRowsSoFar ==
    /\ excFrom # "extract_table_data_with_pagination"
    /\ (errKind # "none") => (pc = "w_return")
    /\ (pc = "w_return" /\ errKind \in {"wait", "extract"}) => (all_rows = iterRows)
    /\ (pc = "w_return" /\ errKind \in {"next", "click"})
         => /\ visited # <<>>
            /\ all_rows = iterRows \o
                 Merged(page, extract_table_data_with_bs4(
                     TRUE, thead, truth[visited[Len(visited)]], delimiter))

\* C8 witness: the click raised on the second iteration, after that
\* iteration's rows were merged.
C8_Witness ==
    /\ pc = "w_return"
    /\ errKind = "click"
    /\ page = 2
    /\ Len(all_rows) > Len(iterRows)

\* C9: a session the handler created is quit exactly once before the handler
\* returns, on every path; no session is open once the handler has returned,
\* and nothing is quit when none was created.
C9_SessionReleasedOnce ==
    /\ created <= 1
    /\ quits <= created
    /\ (driver = "open") <=> (created = 1 /\ quits = 0)
    /\ (pc = "done") => (quits = created /\ driver # "open" /\ response # NoResponse)
    /\ (quits = 1) => (pc = "done" /\ response # NoResponse)

\* C9 witness: the handler returned a server error after the detail panel
\* failed, with its session quit.
C9_Witness ==
    /\ pc = "done"
    /\ created = 1
    /\ quits = 1
    /\ response = Failure("Error extracting IEC details", 500)

\* C10: once the CAPTCHA loop has returned False the response is the
\* "Failed to solve captcha" failure with status 400, whatever made the
\* attempts fail, and no response carries that error otherwise.
C10_CaptchaFailureDistinct ==
    /\ (captchaRet = "false" /\ pc \in {"finally", "done"})
         => (response = Failure(FailedCaptcha, 400))
    /\ (response.error = FailedCaptcha)
         => (captchaRet = "false" /\ response.status = 400 /\ ~response.success)
    /\ (captchaRet = "false") => (pc \in {"captcha_result", "finally", "done"})

\* C10 witness: the handler returned the CAPTCHA failure after a run whose
\* last attempt ended with a solver error.
C10_Witness ==
    /\ pc = "done"
    /\ outcome = "solver_error"
    /\ response = Failure(FailedCaptcha, 400)

\* C11: a request without a body, or whose body lacks "iec_code" or "name", is
\* answered with the "Missing required parameters" failure and status 400, and
\* the handler has then created no browser session and made no call on the
\* browser or the solver.
C11_MissingParametersRejected ==
    (/\ pc = "done"
     /\ \/ request.json # "object"
        \/ ~({"iec_code", "name"} \subseteq request.keys))
      => (/\ response = Failure(MissingParameters, 400)
          /\ created = 0
          /\ steps = <<>>
          /\ outcome = "none")

\* C12: when extract_iec_details raises, the CAPTCHA loop had returned True,
\* the pagination walker is never called, and the handler's except clause
\* turns the exception into the failure response with status 500; the same
\* response shape answers a failed create_driver, with no session created.
\* Every finished request carries a response, and a success response only when
\* nothing was raised.
C12_ScrapingFailuresAnswered ==
    /\ (excFrom = "extract_iec_details")
         => (/\ captchaRet = "true"
             /\ excMsg = "Error extracting IEC details"
             /\ "extract_table_data_with_pagination" \notin Range(steps)
             /\ branch_details = NoText)
    /\ (excFrom = "create_driver")
         => (/\ created = 0
             /\ excMsg = "Failed to create Chrome driver"
             /\ steps = <<"create_driver">>)
    /\ (excFrom \in {"extract_iec_details", "create_driver"})
         => (/\ pc \in {"except", "finally", "done"}
             /\ (pc \in {"finally", "done"}) => (response = Failure(excMsg, 500)))
    /\ (pc = "done") => (response # NoResponse)
    /\ response.success => (excFrom = "none")

\* C12 witness: the request is over, the details panel never appeared after a
\* verified CAPTCHA, and the session that had been created is closed.
C12_Witness ==
    /\ pc = "done"
    /\ excFrom = "extract_iec_details"
    /\ verified
    /\ driver = "quit"
    /\ response.status = 500

\* C15: an attempt whose solved text is empty or absent never reaches the
\* input field or the submit button (those steps only ever run with a
\* non-blank text, and nothing is touched before the text was tested), and
\* when it ends it has been counted as exactly one failed attempt.
C15_BlankTextNotSubmitted ==
    /\ (pc \in {"c_fill", "c_submit", "c_verify"}) => (captcha_text = "text")
    /\ (pc \in {"c_capture", "c_solve", "c_test"}) => ~touched
    /\ (pc = "c_loop" /\ outcome = "blank")
         => (/\ ~touched
             /\ captcha_text \in {"none", ""}
             /\ attempt = failed
             /\ attempt >= 1
             /\ fills < attempt
             /\ submits < attempt)

\* C15 witness: the second attempt just ended on an empty solved text, after
\* a first attempt that did fill and submit.
C15_Witness ==
    /\ pc = "c_loop"
    /\ outcome = "blank"
    /\ captcha_text = ""
    /\ attempt = 2
    /\ fills = 1
    /\ submits = 1

\* C16: a solver call without a captured region returns absent, and the
\* requests sent to the external solver in one run of the loop never
\* outnumber the attempts in which a region was captured.
C16_NoRegionNoRequest ==
    /\ netCalls <= captured
    /\ captured <= solveCalls + 1
    /\ netCalls <= solveCalls
    /\ (pc = "c_test" /\ captcha_image = "none") => (captcha_text = "none")

\* C16 witness: the second solver call was made without a region and came back
\* absent, after a first attempt whose region was sent to the solver.
C16_Witness ==
    /\ pc = "c_test"
    /\ captcha_image = "none"
    /\ captcha_text = "none"
    /\ solveCalls = 2
    /\ captured = 1
    /\ netCalls = 1

\* The calls of one request, in the order of the handler's text.
HandlerOrder ==
    <<"create_driver", "navigate", "fill_form", "handle_captcha_submission",
      "extract_iec_details", "extract_table_data_with_pagination">>

\* C17: the calls made so far are always an initial part of the handler's
\* order (form fill, CAPTCHA loop, details, walker, each at most once);
\* extract_iec_details is called only after the loop returned True; and the
\* success response is built only when both extractors were called once and
\* have returned.
C17_StepsInOrder ==
    /\ Len(steps) <= Len(HandlerOrder)
    /\ steps = SubSeq(HandlerOrder, 1, Len(steps))
    /\ ("handle_captcha_submission" \in Range(steps) /\ pc \notin CaptchaPcs)
         => (captchaRet # "none")
    /\ ("extract_iec_details" \in Range(steps)) => (captchaRet = "true")
    /\ (pc = "respond" \/ response.success)
         => (/\ steps = HandlerOrder
             /\ iec_details # NoText
             /\ branch_details # NoText
             /\ pc \notin WalkPcs)

\* C17 witness: a finished request with a success response.
C17_Witness ==
    /\ pc = "done"
    /\ response.success
    /\ steps = HandlerOrder

\* ------------------------------------------- the pure functions, alone

\* No request is being handled: every variable of the handler, the CAPTCHA
\* loop, the portal and the walker is as before a request.
Quiet ==
    /\ request = [json |-> "null", keys |-> {}]
    /\ driver = "none"
    /\ created = 0
    /\ quits = 0
    /\ excFrom = "none"
    /\ excMsg = "none"
    /\ response = NoResponse
    /\ iec_details = NoText
    /\ captchaRet = "none"
    /\ verified = FALSE
    /\ attempt = 0
    /\ captcha_image = "none"
    /\ captcha_text = "none"
    /\ solveCalls = 0
    /\ netCalls = 0
    /\ fills = 0
    /\ submits = 0
    /\ failed = 0
    /\ outcome = "none"
    /\ numPages = 0
    /\ lastNext = "absent"
    /\ shown = 0
    /\ target = 0
    /\ lag = 0
    /\ truth = <<>>
    /\ all_rows = <<>>
    /\ page = 0
    /\ next_button = "none"
    /\ clicks = 0
    /\ visited = <<>>
    /\ dropped = {}
    /\ iterRows = <<>>
    /\ errKind = "none"
    /\ branch_details = NoText
    /\ steps = <<>>
    /\ touched = FALSE
    /\ captured = 0

\* The variables no pure function changes.
qvars == <<hvars, cvars, pvars, wvars, steps, touched, captured>>

\* The longest cell text handed to the normalizer.
MaxText == 4

\* The characters of those texts: the three kinds of whitespace, two others.
Alphabet == Whitespace \cup {"a", "b"}

\* Every text over Alphabet of at most n characters.
Texts(n) == UNION {[1..k -> Alphabet] : k \in 0..n}

InitNormalize ==
    /\ pc = "n_first"
    /\ raw \in Texts(MaxText)
    /\ norm = NoText
    /\ norm2 = NoText
    /\ delimiterArg = delimiter
    /\ lines = <<>>
    /\ lines2 = <<>>
    /\ thead = NoHead
    /\ dom = NoDom
    /\ Quiet

\* ' '.join(col.get_text(strip=True).split()) on the raw text.
NormalizeCell ==
    /\ pc = "n_first"
    /\ norm' = Normalize(raw)
    /\ pc' = "n_second"
    /\ UNCHANGED <<qvars, raw, norm2, delimiterArg, lines, lines2>>

\* The same expression on its own result.
NormalizeAgain ==
    /\ pc = "n_second"
    /\ norm2' = Normalize(norm)
    /\ pc' = "n_done"
    /\ UNCHANGED <<qvars, raw, norm, delimiterArg, lines, lines2>>

NextNormalize ==
    \/ NormalizeCell
    \/ NormalizeAgain

SpecNormalize == InitNormalize /\ [][NextNormalize]_vars

\* C14: normalizing a normalized cell text changes nothing, and a normalized
\* text neither starts nor ends with whitespace, holds no two whitespace
\* characters in a row, and holds no whitespace other than the single space.
C14_NormalizeIdempotent ==
    (pc = "n_done")
      => (/\ norm2 = norm
          /\ (norm # <<>>) => (norm[1] \notin Whitespace
                               /\ norm[Len(norm)] \notin Whitespace)
          /\ \A i \in 1..Len(norm) :
               (norm[i] \in Whitespace)
                 => (norm[i] = WS /\ i < Len(norm) /\ norm[i + 1] \notin Whitespace)
          /\ Len(norm) <= Len(raw))

\* C14 witness: a text with a run of two different whitespace characters
\* between two letters was normalized twice.
C14_Witness ==
    /\ pc = "n_done"
    /\ raw = <<"a", TAB, NL, "b">>
    /\ norm = <<"a", WS, "b">>

\* The delimiters a caller passes: the default, and another.
Delimiters == {delimiter, ","}

\* The cell texts of the table snapshots: empty, whitespace only, words with
\* whitespace around and between them, and the default delimiter itself.
CellTexts == {<<>>, <<WS>>, <<WS, "a", TAB, WS, "b", NL>>, <<delimiter>>}

\* Rows (and heads) of two cells.
TableRows == {<<a, b>> : a, b \in CellTexts}

\* Every tbody of at most n rows.
Tables(n) == UNION {[1..k -> TableRows] : k \in 0..n}

TableHeads == {NoHead} \cup {[has |-> TRUE, ths |-> r] : r \in TableRows}

InitExtract ==
    /\ pc = "x_first"
    /\ delimiterArg \in Delimiters
    /\ \/ /\ dom = NoDom
          /\ thead = NoHead
       \/ /\ thead \in TableHeads
          /\ \E body \in Tables(MaxRows) :
               dom = [table |-> TRUE, rows |-> body, next |-> "absent"]
    /\ raw = NoText
    /\ norm = NoText
    /\ norm2 = NoText
    /\ lines = <<>>
    /\ lines2 = <<>>
    /\ Quiet

\* extract_table_data_with_bs4(driver, table_id, delimiter) on the snapshot.
ExtractTable ==
    /\ pc = "x_first"
    /\ lines' = extract_table_data_with_bs4(dom.table, thead, dom.rows, delimiterArg)
    /\ pc' = "x_second"
    /\ UNCHANGED <<qvars, raw, norm, norm2, delimiterArg, lines2>>

\* A second call on the same snapshot.
ExtractTableAgain ==
    /\ pc = "x_second"
    /\ lines2' = extract_table_data_with_bs4(dom.table, thead, dom.rows, delimiterArg)
    /\ pc' = "x_done"
    /\ UNCHANGED <<qvars, raw, norm, norm2, delimiterArg, lines>>

NextExtract ==
    \/ ExtractTable
    \/ ExtractTableAgain

SpecExtract == InitExtract /\ [][NextExtract]_vars

\* A text made of the character d and nothing else.
OnlyOf(line, d) == line # <<>> /\ \A i \in 1..Len(line) : line[i] = d

\* Some cell is not blank after trimming.
NonBlank(cells) == \E c \in 1..Len(cells) : Strip(cells[c]) # <<>>

\* Some cell, trimmed, is made of the character d and nothing else.
HasCellOnlyOf(cells, d) == \E c \in 1..Len(cells) : OnlyOf(Strip(cells[c]), d)

\* The body rows of the snapshot that are not blank, by position.
KeptRows == {r \in 1..Len(dom.rows) : NonBlank(dom.rows[r])}

\* The snapshot has a head section with a non-blank cell.
HeaderKept == dom.table /\ thead.has /\ NonBlank(thead.ths)

\* C13 as stated: for every snapshot no returned line consists only of
\* delimiters, a blank header and blank body rows yield no line, and a second
\* call returns the same lines.
C13_NoDelimiterOnlyLine ==
    (pc = "x_done")
      => (/\ \A i \in 1..Len(lines) : ~OnlyOf(lines[i], delimiterArg)
          /\ Len(lines) = (IF HeaderKept THEN 1 ELSE 0) + Cardinality(KeptRows)
          /\ lines2 = lines)

\* C13 amended: a blank header and blank body rows yield no line, so no
\* returned line is empty and a line consists only of delimiters only when a
\* cell of the snapshot itself consists only of delimiter characters; a second
\* call returns the same lines.
C13_BlankLinesOmitted ==
    (pc = "x_done")
      => (/\ \A i \in 1..Len(lines) :
               /\ lines[i] # <<>>
               /\ OnlyOf(lines[i], delimiterArg)
                    => \/ HasCellOnlyOf(thead.ths, delimiterArg)
                       \/ \E r \in 1..Len(dom.rows) :
                            HasCellOnlyOf(dom.rows[r], delimiterArg)
          /\ ~HeaderKept => (Len(lines) = Cardinality(KeptRows))
          /\ Len(lines) <= 1 + Cardinality(KeptRows)
          /\ lines2 = lines)

\* C13 witness: a snapshot whose header cells are all blank and whose two body
\* rows are a blank one and one with text; one line came back.
C13_Witness ==
    /\ pc = "x_done"
    /\ thead.has
    /\ ~NonBlank(thead.ths)
    /\ Len(dom.rows) = 2
    /\ ~NonBlank(dom.rows[1])
    /\ dom.rows[2] = << <<WS, "a", TAB, WS, "b", NL>>, <<WS>> >>
    /\ Len(lines) = 1

\* C19: when the table exists, the lines are the header line (the trimmed th
\* texts joined by the caller's delimiter) if some th is non-blank, and then,
\* in DOM order, one line for each body row with a non-blank cell: that row's
\* normalized cells joined by the caller's delimiter. When the table is absent
\* the result is empty.
C19_HeaderThenRowsInOrder ==
    (pc = "x_done")
      => IF ~dom.table THEN lines = <<>>
         ELSE LET h == IF HeaderKept THEN 1 ELSE 0
                  Rank(r) == Cardinality({q \in KeptRows : q <= r})
              IN  /\ Len(lines) = h + Cardinality(KeptRows)
                  /\ HeaderKept
                       => (lines[1] = Join(StripAll(thead.ths), <<delimiterArg>>))
                  /\ \A r \in KeptRows :
                       lines[h + Rank(r)]
                         = Join(NormalizeAll(dom.rows[r]), <<delimiterArg>>)

\* C19 witness: a header with text and two different rows with text, read
\* with the other delimiter; three lines came back, the header's first.
C19_Witness ==
    /\ pc = "x_done"
    /\ delimiterArg = ","
    /\ HeaderKept
    /\ Cardinality(KeptRows) = 2
    /\ dom.rows[1] # dom.rows[2]
    /\ lines = << Join(StripAll(thead.ths), <<",">>),
                  Join(NormalizeAll(dom.rows[1]), <<",">>),
                  Join(NormalizeAll(dom.rows[2]), <<",">>) >>

\* ------------------------------------------------- the walker, alone

\* The request at the call of extract_table_data_with_pagination: the session
\* is open, the CAPTCHA loop returned True and the details were read.
InitWalk ==
    /\ pc = "walk"
    /\ request = [json |-> "object", keys |-> {"iec_code", "name"}]
    /\ driver = "open"
    /\ created = 1
    /\ quits = 0
    /\ excFrom = "none"
    /\ excMsg = "none"
    /\ response = NoResponse
    /\ iec_details = extract_iec_details(<<CompleteGroup>>)
    /\ captchaRet = "true"
    /\ verified = TRUE
    /\ attempt = 0
    /\ captcha_image = "none"
    /\ captcha_text = "none"
    /\ solveCalls = 0
    /\ netCalls = 0
    /\ fills = 0
    /\ submits = 0
    /\ failed = 0
    /\ outcome = "solved"
    /\ thead = NoHead
    /\ numPages = 0
    /\ lastNext = "absent"
    /\ dom = NoDom
    /\ shown = 0
    /\ target = 0
    /\ lag = 0
    /\ truth = <<>>
    /\ all_rows = <<>>
    /\ page = 0
    /\ next_button = "none"
    /\ clicks = 0
    /\ visited = <<>>
    /\ dropped = {}
    /\ iterRows = <<>>
    /\ errKind = "none"
    /\ branch_details = NoText
    /\ steps = SubSeq(HandlerOrder, 1, 5)
    /\ touched = FALSE
    /\ captured = 0
    /\ raw = NoText
    /\ norm = NoText
    /\ norm2 = NoText
    /\ delimiterArg = delimiter
    /\ lines = <<>>
    /\ lines2 = <<>>

NextWalk ==
    \/ WalkEnterAny
    \/ Render
    \/ WalkWait
    \/ WalkExtract
    \/ WalkNext
    \/ WalkClick
    \/ WalkReturn

SpecWalk == InitWalk /\ [][NextWalk]_vars

\* C18: whatever the portal does, the walk makes a bounded number of page
\* iterations before it returns: on a portal of numPages pages its page
\* counter never passes numPages by more than the clicks that went through
\* while a re-render was pending.
C18_WalkIterationsBounded ==
    (pc \in WalkPcs /\ numPages >= 1) => (page <= numPages + MaxLag)

====
